---- MODULE Spec2Model ----
(***************************************************************************)
(* The worker of compute-job-template (src/worker.py): parameter loading,  *)
(* the conditional query-execution step, result extraction from the        *)
(* `results` table and the writing of the JSON artifact.                   *)
(*                                                                         *)
(* Spec      one run of main().                                            *)
(* UnitSpec  one call of a single function of the module on inputs drawn   *)
(*           from bounded sets.                                            *)
(***************************************************************************)
EXTENDS Integers, Sequences, FiniteSets, TLC

VARIABLES
    pc,             \* position of the run: main's program point, or call/returned
    fn,             \* the entry point being run
    env,            \* the process environment ContainerParams.from_env reads
    params,         \* the ContainerParams value once loaded
    outcome,        \* the QueryResult the QueryEngine answers with
    table,          \* the rows of table `results` in the SQLite file
    db_fault,       \* where the data source fails: none / connect / query
    file,           \* the file at params.stats_path
    fs_fault,       \* where the file system fails: none / mkdir / open / write
    data,           \* the dictionary handed to save_stats_to_json
    result,         \* what the called function returned or raised (UnitSpec)
    execute_calls,  \* calls of execute_query
    engine_calls,   \* calls of QueryEngineClient.execute_query
    extract_calls,  \* calls of process_results
    save_calls,     \* calls of save_stats_to_json
    open_conns,     \* sqlite3 connections opened and still open
    exit_code       \* the process exit status, NoExit while running

vars == <<pc, fn, env, params, outcome, table, db_fault, file, fs_fault, data,
          result, execute_calls, engine_calls, extract_calls, save_calls, open_conns,
          exit_code>>

-----------------------------------------------------------------------------
(* Bounds *)

MaxRows == 2        \* rows of `results` in a run of main and in keyed extraction
MaxMsgRows == 11    \* rows of `results` in calls of get_chat_messages
MaxWriteAt == 3     \* chunks written before an injected write failure

(* Program constants *)

Limit == 10         \* LIMIT 10 of get_chat_messages
NoExit == -1        \* the process has not exited

Min(a, b) == IF a < b THEN a ELSE b

-----------------------------------------------------------------------------
(* Values *)

Bytes == "<bytes>"   \* a BLOB value: bytes, which json cannot serialize

MkRow(chat, first, last, count, sender, user, source, status) ==
    [SubmissionChatID |-> chat, FirstMessageDate |-> first, LastMessageDate |-> last,
     ParticipantCount |-> count, SenderID |-> sender, UserID |-> user,
     Source |-> source, Status |-> status]

RowA == MkRow("chat-1", "2024-01-01", "2024-01-05", "2", "alice", 7, "web", "active")
RowB == MkRow("chat-2", "2024-02-01", "2024-02-09", "3", "bob", 12, "app", "banned")
RowC == MkRow("chat-1", "2024-03-01", "2024-03-02", "5", "carol", 7, "api", Bytes)

RowSet == {RowA, RowB, RowC}
MsgRowSet == {RowA, RowB}

RECURSIVE SeqsUpTo(_, _)
SeqsUpTo(S, n) ==
    IF n = 0 THEN {<<>>}
    ELSE LET shorter == SeqsUpTo(S, n - 1)
         IN shorter \cup {Append(s, x) : s \in {t \in shorter : Len(t) = n - 1}, x \in S}

Tables == SeqsUpTo(RowSet, MaxRows)
MsgTables == SeqsUpTo(MsgRowSet, MaxMsgRows)

\* str(n) for a natural number
Digits == <<"0", "1", "2", "3", "4", "5", "6", "7", "8", "9">>
RECURSIVE Str(_)
Str(n) == IF n < 10 THEN Digits[n + 1] ELSE Str(n \div 10) \o Digits[(n % 10) + 1]

-----------------------------------------------------------------------------
(* A Python dict: its items in insertion order, keys unique *)

EmptyDict == <<>>
DictKeys(d) == {d[i].k : i \in 1..Len(d)}
DictSet(d, key, val) ==
    IF key \in DictKeys(d)
    THEN [i \in 1..Len(d) |-> IF d[i].k = key THEN [k |-> key, v |-> val] ELSE d[i]]
    ELSE Append(d, [k |-> key, v |-> val])

-----------------------------------------------------------------------------
(* The data source *)

DbFaults == {"none", "connect", "query"}

\* cursor.execute('SELECT cols FROM results'); the fetched rows as dict(row)
Select(tbl, cols) == [i \in 1..Len(tbl) |-> [c \in cols |-> tbl[i][c]]]

\* ... LIMIT n
SelectLimit(tbl, cols, n) == SubSeq(Select(tbl, cols), 1, Min(Len(tbl), n))

\* Outcome of an extraction function: raised, the returned dict, and the state
\* the code leaves its connection in ("none" when connect itself failed)
Extracted(raised, value, conn) == [raised |-> raised, value |-> value, conn |-> conn]

\* Leaving `with sqlite3.connect(...) as conn:` commits or rolls back the
\* transaction; it does not close the connection
WithExit(conn) == conn

\* get_user_data: lines 54-77
RECURSIVE UserDataLoop(_, _, _)
UserDataLoop(rows, i, user_data) ==
    IF i > Len(rows) THEN user_data
    ELSE UserDataLoop(rows, i + 1,
             DictSet(user_data, Str(rows[i].UserID),
                     [source |-> rows[i].Source, status |-> rows[i].Status]))

get_user_data(tbl, fault) ==
    IF fault = "connect" THEN Extracted(TRUE, EmptyDict, "none")
    ELSE IF fault = "query" THEN Extracted(TRUE, EmptyDict, "open")
    ELSE Extracted(FALSE,
                   UserDataLoop(Select(tbl, {"UserID", "Source", "Status"}), 1, EmptyDict),
                   "closed")

\* get_chat_messages as it would be with the LIMIT clause dropped
get_chat_messages_unlimited(tbl, fault) ==
    IF fault = "connect" THEN Extracted(TRUE, EmptyDict, "none")
    ELSE IF fault = "query" THEN Extracted(TRUE, EmptyDict, "open")
    ELSE LET rows == Select(tbl, {"SenderID"})
         IN Extracted(FALSE,
                [i \in 1..Len(rows) |-> [k |-> Str(i - 1), v |-> rows[i]]],
                "open")

\* get_chat_messages: lines 93-120
RECURSIVE MessagesLoop(_, _, _)
MessagesLoop(rows, index_counter, messages) ==
    IF index_counter >= Len(rows) THEN messages
    ELSE MessagesLoop(rows, index_counter + 1,
             DictSet(messages, Str(index_counter), rows[index_counter + 1]))

get_chat_messages(tbl, fault) ==
    IF fault = "connect" THEN Extracted(TRUE, EmptyDict, "none")
    ELSE IF fault = "query" THEN Extracted(TRUE, EmptyDict, WithExit("open"))
    ELSE Extracted(FALSE,
                   MessagesLoop(SelectLimit(tbl, {"SenderID"}, Limit), 0, EmptyDict),
                   WithExit("open"))

\* get_submission_chats: lines 135-154. row_dict['SubmissionChatID'] raises
\* KeyError when the column is not among the selected ones.
RECURSIVE ChatsLoop(_, _, _)
ChatsLoop(rows, i, chats) ==
    IF i > Len(rows) THEN [raised |-> FALSE, value |-> chats]
    ELSE IF "SubmissionChatID" \notin DOMAIN rows[i]
         THEN [raised |-> TRUE, value |-> EmptyDict]
         ELSE ChatsLoop(rows, i + 1, DictSet(chats, rows[i]["SubmissionChatID"], rows[i]))

get_submission_chats(tbl, fault) ==
    IF fault = "connect" THEN Extracted(TRUE, EmptyDict, "none")
    ELSE IF fault = "query" THEN Extracted(TRUE, EmptyDict, WithExit("open"))
    ELSE LET loop == ChatsLoop(Select(tbl, {"FirstMessageDate", "LastMessageDate",
                                            "ParticipantCount"}), 1, EmptyDict)
         IN Extracted(loop.raised, loop.value, WithExit("open"))

\* Whether the connection an extraction function leaves behind is still open
\* once the call is over. A connection the code closed is closed. One it left
\* open is referenced only by the function's frame: after a normal return the
\* interpreter may finalize it at once (reference counting) or later, and
\* while an exception propagates the traceback keeps the frame alive.
StillOpen(r) ==
    IF r.conn # "open" THEN {FALSE}
    ELSE IF r.raised THEN {TRUE}
    ELSE {TRUE, FALSE}

-----------------------------------------------------------------------------
(* The artifact file *)

Absent == [exists |-> FALSE, content |-> <<>>]
NoValue == [none |-> TRUE]
OpenBrace == [t |-> "{", k |-> "", v |-> NoValue]
CloseBrace == [t |-> "}", k |-> "", v |-> NoValue]
EmptyObject == [t |-> "{}", k |-> "", v |-> NoValue]
Member(key, val) == [t |-> "member", k |-> key, v |-> val]

\* json.dump(data, f, indent=4) of the dictionary: the complete document
JsonDocument(d) ==
    IF Len(d) = 0 THEN <<EmptyObject>>
    ELSE <<OpenBrace>> \o [i \in 1..Len(d) |-> Member(d[i].k, d[i].v)] \o <<CloseBrace>>

\* A value json can encode: none of its attributes is bytes
Serializable(val) == \A a \in DOMAIN val : val[a] # Bytes

\* The index of the first item json.dump raises TypeError on, 0 when none
FirstUnserializable(d) ==
    IF \A i \in 1..Len(d) : Serializable(d[i].v) THEN 0
    ELSE CHOOSE i \in 1..Len(d) :
             /\ ~Serializable(d[i].v)
             /\ \A j \in 1..(i - 1) : Serializable(d[j].v)

\* The chunks json.dump hands to f.write before it returns or raises
JsonChunks(d) ==
    IF FirstUnserializable(d) = 0 THEN JsonDocument(d)
    ELSE SubSeq(JsonDocument(d), 1, FirstUnserializable(d))

\* The previous run's artifact
OldFile == [exists |-> TRUE,
            content |-> JsonDocument(<<[k |-> "7", v |-> [source |-> "web", status |-> "old"]]>>)]
Files == {Absent, OldFile}

FsFault(kind, at) == [kind |-> kind, at |-> at]
NoFsFault == FsFault("none", 0)
FsFaults == {NoFsFault, FsFault("mkdir", 0), FsFault("open", 0)}
            \cup {FsFault("write", at) : at \in 0..MaxWriteAt}

\* save_stats_to_json as it would be with the `raise` of its handler dropped
save_stats_to_json_swallowing(d, f, fs) ==
    [raised |-> FALSE,
     file |-> IF fs.kind \in {"mkdir", "open"} THEN f
              ELSE IF fs.kind = "write"
              THEN [exists |-> TRUE,
                    content |-> SubSeq(JsonChunks(d), 1, Min(fs.at, Len(JsonChunks(d)) - 1))]
              ELSE [exists |-> TRUE, content |-> JsonChunks(d)]]

\* save_stats_to_json: lines 265-277. open(output_path, "w") truncates the
\* file; json.dump writes the document chunk by chunk; a write failure after
\* fs.at chunks (the last chunk at the latest) leaves what was written so far.
save_stats_to_json(d, f, fs) ==
    IF fs.kind \in {"mkdir", "open"} THEN [raised |-> TRUE, file |-> f]
    ELSE IF fs.kind = "write"
    THEN [raised |-> TRUE,
          file |-> [exists |-> TRUE,
                    content |-> SubSeq(JsonChunks(d), 1, Min(fs.at, Len(JsonChunks(d)) - 1))]]
    ELSE [raised |-> FirstUnserializable(d) # 0,
          file |-> [exists |-> TRUE, content |-> JsonChunks(d)]]

\* A complete JSON document whose top-level value is an object
IsCompleteJson(content) ==
    \/ content = <<EmptyObject>>
    \/ /\ Len(content) >= 3
       /\ content[1] = OpenBrace
       /\ content[Len(content)] = CloseBrace
       /\ \A i \in 2..(Len(content) - 1) : content[i].t = "member"

-----------------------------------------------------------------------------
(* Parameters and the QueryEngine *)

Envs == [dev_mode : BOOLEAN, query : {"", "SELECT * FROM chats"},
         query_signature : {"", "0xsig"}, malformed : BOOLEAN]

MkParams(dev_mode, query, query_signature) ==
    [dev_mode |-> dev_mode, query |-> query, query_signature |-> query_signature]

NoParams == MkParams(FALSE, "", "")
NoEnv == [dev_mode |-> FALSE, query |-> "", query_signature |-> "", malformed |-> FALSE]

\* ContainerParams.validate_production_mode: the query fields are present
validate_production_mode(p) == p.query # "" /\ p.query_signature # ""

\* ContainerParams.from_env: raises ContainerParamError on malformed input and,
\* in production mode, on a missing query field
from_env(e) ==
    [raised |-> e.malformed \/ (~e.dev_mode /\ ~validate_production_mode(e)),
     value |-> MkParams(e.dev_mode, e.query, e.query_signature)]

\* QueryResult: success, error, status_code (0 for None), data ("" for None)
QueryResult(success, error, status_code, qdata) ==
    [success |-> success, error |-> error, status_code |-> status_code, data |-> qdata]

Outcomes == {QueryResult(TRUE, "", 200, ""),
             QueryResult(FALSE, "timeout", 504, ""),
             QueryResult(FALSE, "connection refused", 0, ""),
             QueryResult(FALSE, "bad query", 400, "detail")}

\* QueryEngineClient.execute_query: one blocking call, answered by a QueryResult
QueryEngineCall(p, answer) == [result |-> answer, calls |-> 1]

\* execute_query as it would be if a reported failure were not turned into False
execute_query_ignoring_failure(p, answer) ==
    IF ~validate_production_mode(p)
    THEN [ret |-> FALSE, raised |-> FALSE, calls |-> 0, error_msg |-> <<>>]
    ELSE [ret |-> TRUE, raised |-> FALSE, calls |-> 1, error_msg |-> <<>>]

\* execute_query as it would be with one retry after a reported failure
execute_query_retrying(p, answer) ==
    IF ~validate_production_mode(p)
    THEN [ret |-> FALSE, raised |-> FALSE, calls |-> 0, error_msg |-> <<>>]
    ELSE [ret |-> answer.success, raised |-> FALSE,
          calls |-> IF answer.success THEN 1 ELSE 2, error_msg |-> <<>>]

\* execute_query: lines 288-316
execute_query(p, answer) ==
    IF ~validate_production_mode(p)
    THEN [ret |-> FALSE, raised |-> FALSE, calls |-> 0, error_msg |-> <<>>]
    ELSE LET call == QueryEngineCall(p, answer)
             query_result == call.result
         IN IF ~query_result.success
            THEN [ret |-> FALSE, raised |-> FALSE, calls |-> call.calls,
                  error_msg |-> <<"Error executing query: ", query_result.error>>
                      \o (IF query_result.status_code # 0
                          THEN <<" (Status code: ", Str(query_result.status_code), ")">>
                          ELSE <<>>)
                      \o (IF query_result.data # ""
                          THEN <<"\nResponse data: ", query_result.data>>
                          ELSE <<>>)]
            ELSE [ret |-> TRUE, raised |-> FALSE, calls |-> call.calls, error_msg |-> <<>>]

NoResult == [ret |-> FALSE, raised |-> FALSE]

-----------------------------------------------------------------------------
(* One run of main() *)

Init ==
    /\ pc = "start"
    /\ fn = "main"
    /\ env \in Envs
    /\ params = NoParams
    /\ outcome \in Outcomes
    /\ table \in Tables
    /\ db_fault \in DbFaults
    /\ file \in Files
    /\ fs_fault \in FsFaults
    /\ data = EmptyDict
    /\ result = NoResult
    /\ execute_calls = 0
    /\ engine_calls = 0
    /\ extract_calls = 0
    /\ save_calls = 0
    /\ open_conns = 0
    /\ exit_code = NoExit

\* sys.exit(code)
Exit(code) ==
    /\ pc' = "exited"
    /\ exit_code' = code

\* LoadParams as it would be if the handler of ContainerParamError only printed
LoadParams_without_exit ==
    /\ pc = "start"
    /\ params' = from_env(env).value
    /\ pc' = "mode"
    /\ UNCHANGED <<save_calls, fn, env, outcome, table, db_fault, file, fs_fault, data,
                   result, execute_calls, engine_calls, extract_calls, open_conns,
                   exit_code>>

\* lines 393-398: load the parameters; ContainerParamError exits with 1
LoadParams ==
    /\ pc = "start"
    /\ IF from_env(env).raised
       THEN Exit(1) /\ UNCHANGED params
       ELSE /\ params' = from_env(env).value
            /\ pc' = "mode"
            /\ UNCHANGED exit_code
    /\ UNCHANGED <<save_calls, fn, env, outcome, table, db_fault, file, fs_fault, data, result,
                   execute_calls, engine_calls, extract_calls, open_conns>>

\* lines 401-403: development mode goes on without the query
SkipQuery ==
    /\ pc = "mode"
    /\ params.dev_mode
    /\ pc' = "process"
    /\ UNCHANGED <<save_calls, fn, env, params, outcome, table, db_fault, file, fs_fault, data,
                   result, execute_calls, engine_calls, extract_calls, open_conns,
                   exit_code>>

\* RunQuery as it would be if the query were executed in either mode
RunQuery_in_any_mode ==
    /\ pc = "mode"
    /\ LET r == execute_query(params, outcome)
       IN /\ execute_calls' = execute_calls + 1
          /\ engine_calls' = engine_calls + r.calls
          /\ IF ~r.ret THEN Exit(2)
             ELSE pc' = "process" /\ UNCHANGED exit_code
    /\ UNCHANGED <<save_calls, fn, env, params, outcome, table, db_fault, file,
                   fs_fault, data, result, extract_calls, open_conns>>

\* lines 404-407: production mode executes the query; a false result exits with 2
RunQuery ==
    /\ pc = "mode"
    /\ ~params.dev_mode
    /\ LET r == execute_query(params, outcome)
       IN /\ execute_calls' = execute_calls + 1
          /\ engine_calls' = engine_calls + r.calls
          /\ IF r.raised THEN Exit(3)
             ELSE IF ~r.ret THEN Exit(2)
             ELSE pc' = "process" /\ UNCHANGED exit_code
    /\ UNCHANGED <<save_calls, fn, env, params, outcome, table, db_fault, file, fs_fault, data,
                   result, extract_calls, open_conns>>

\* lines 410 and 347: process_results calls get_submission_chats; an exception
\* reaches main's handler (lines 412-414), which exits with 3
ExtractResults ==
    /\ pc = "process"
    /\ extract_calls' = extract_calls + 1
    /\ LET chats == get_submission_chats(table, db_fault)
       IN /\ \E open \in StillOpen(chats) :
                 open_conns' = open_conns + (IF open THEN 1 ELSE 0)
          /\ IF chats.raised
             THEN Exit(3) /\ UNCHANGED data
             ELSE /\ data' = chats.value
                  /\ pc' = "save"
                  /\ UNCHANGED exit_code
    /\ UNCHANGED <<save_calls, fn, env, params, outcome, table, db_fault, file, fs_fault, result,
                   execute_calls, engine_calls>>

\* WriteArtifact as it would be if nothing were saved when there are no chats
WriteArtifact_only_when_found ==
    /\ pc = "save"
    /\ IF Len(data) # 0
       THEN /\ file' = save_stats_to_json(data, file, fs_fault).file
            /\ save_calls' = save_calls + 1
            /\ IF save_stats_to_json(data, file, fs_fault).raised THEN Exit(3) ELSE Exit(0)
       ELSE Exit(0) /\ UNCHANGED <<file, save_calls>>
    /\ UNCHANGED <<fn, env, params, outcome, table, db_fault, fs_fault, data, result,
                   execute_calls, engine_calls, extract_calls, open_conns>>

\* lines 349-354: process_results saves the chats, or {} when there are none;
\* main then returns and the process exits with 0
WriteArtifact ==
    /\ pc = "save"
    /\ LET saved == IF Len(data) # 0
                    THEN save_stats_to_json(data, file, fs_fault)
                    ELSE save_stats_to_json(EmptyDict, file, fs_fault)
       IN /\ file' = saved.file
          /\ IF saved.raised THEN Exit(3) ELSE Exit(0)
    /\ save_calls' = save_calls + 1
    /\ UNCHANGED <<fn, env, params, outcome, table, db_fault, fs_fault, data, result,
                   execute_calls, engine_calls, extract_calls, open_conns>>

Next == LoadParams \/ SkipQuery \/ RunQuery \/ ExtractResults \/ WriteArtifact

Spec == Init /\ [][Next]_vars

-----------------------------------------------------------------------------
(* One call of a single function *)

UnitFns == {"execute_query", "get_user_data", "get_chat_messages",
            "get_submission_chats", "save_stats_to_json"}
ExtractionFns == {"get_user_data", "get_chat_messages", "get_submission_chats"}

ProductionParams == {MkParams(FALSE, e.query, e.query_signature) : e \in Envs}

\* The dictionaries the extraction functions hand to save_stats_to_json
SaveInputs == {get_user_data(t, "none").value : t \in Tables}
              \cup {get_chat_messages(t, "none").value : t \in Tables}

UnitInit ==
    /\ pc = "call"
    /\ fn \in UnitFns
    /\ env = NoEnv
    /\ params \in (IF fn = "execute_query" THEN ProductionParams ELSE {NoParams})
    /\ outcome \in (IF fn = "execute_query" THEN Outcomes ELSE {QueryResult(TRUE, "", 200, "")})
    /\ table \in (IF fn = "get_chat_messages" THEN MsgTables
                  ELSE IF fn \in ExtractionFns THEN Tables
                  ELSE {<<>>})
    /\ db_fault \in (IF fn \in ExtractionFns THEN DbFaults ELSE {"none"})
    /\ file \in (IF fn = "save_stats_to_json" THEN Files ELSE {Absent})
    /\ fs_fault \in (IF fn = "save_stats_to_json" THEN FsFaults ELSE {NoFsFault})
    /\ data \in (IF fn = "save_stats_to_json" THEN SaveInputs ELSE {EmptyDict})
    /\ result = NoResult
    /\ execute_calls = 0
    /\ engine_calls = 0
    /\ extract_calls = 0
    /\ save_calls = 0
    /\ open_conns = 0
    /\ exit_code = NoExit

\* The call of an extraction function is over: its result and its connection
ReturnExtracted(r) ==
    /\ result' = r
    /\ \E open \in StillOpen(r) : open_conns' = open_conns + (IF open THEN 1 ELSE 0)
    /\ pc' = "returned"
    /\ UNCHANGED <<save_calls, fn, env, params, outcome, table, db_fault, file, fs_fault, data,
                   execute_calls, engine_calls, extract_calls, exit_code>>

CallExecuteQuery ==
    /\ pc = "call"
    /\ fn = "execute_query"
    /\ result' = execute_query(params, outcome)
    /\ execute_calls' = execute_calls + 1
    /\ engine_calls' = engine_calls + execute_query(params, outcome).calls
    /\ pc' = "returned"
    /\ UNCHANGED <<save_calls, fn, env, params, outcome, table, db_fault, file, fs_fault, data,
                   extract_calls, open_conns, exit_code>>

CallGetUserData ==
    /\ pc = "call"
    /\ fn = "get_user_data"
    /\ ReturnExtracted(get_user_data(table, db_fault))

CallGetChatMessages ==
    /\ pc = "call"
    /\ fn = "get_chat_messages"
    /\ ReturnExtracted(get_chat_messages(table, db_fault))

CallGetSubmissionChats ==
    /\ pc = "call"
    /\ fn = "get_submission_chats"
    /\ ReturnExtracted(get_submission_chats(table, db_fault))

CallSaveStatsToJson ==
    /\ pc = "call"
    /\ fn = "save_stats_to_json"
    /\ result' = save_stats_to_json(data, file, fs_fault)
    /\ file' = save_stats_to_json(data, file, fs_fault).file
    /\ pc' = "returned"
    /\ save_calls' = save_calls + 1
    /\ UNCHANGED <<fn, env, params, outcome, table, db_fault, fs_fault, data,
                   execute_calls, engine_calls, extract_calls, open_conns, exit_code>>

UnitNext ==
    \/ CallExecuteQuery
    \/ CallGetUserData
    \/ CallGetChatMessages
    \/ CallGetSubmissionChats
    \/ CallSaveStatsToJson

UnitSpec == UnitInit /\ [][UnitNext]_vars

-----------------------------------------------------------------------------
(* Properties of a run of main() *)

Exited == pc = "exited"

\* The configuration loads: from_env raises no ContainerParamError
ValidConfig == ~env.malformed /\ (env.dev_mode \/ (env.query # "" /\ env.query_signature # ""))

\* C1: with a valid production configuration, a QueryEngine outcome with
\* success = true makes the extraction stage run exactly once, and an outcome
\* with success = false makes it never run and the process exit with code 2.
C1_ExtractionFollowsQuery ==
    (ValidConfig /\ ~env.dev_mode) =>
        /\ outcome.success =>
              /\ extract_calls <= 1
              /\ pc \in {"save", "exited"} => extract_calls = 1
        /\ ~outcome.success =>
              /\ extract_calls = 0
              /\ pc \notin {"process", "save"}
              /\ Exited => exit_code = 2

C1_Witness ==
    /\ ValidConfig /\ ~env.dev_mode /\ outcome.success
    /\ Exited /\ extract_calls = 1 /\ engine_calls = 1

\* C2: with dev_mode true, execute_query is never called and the QueryEngine
\* never contacted, whatever it would have answered; the run goes from the
\* loaded parameters to extraction.
C2_DevModeSkipsQuery ==
    env.dev_mode => execute_calls = 0 /\ engine_calls = 0

C2_Witness ==
    /\ env.dev_mode /\ ~outcome.success
    /\ Exited /\ extract_calls = 1 /\ execute_calls = 0

\* The failure class of the run, from its inputs
ConfigurationError == ~ValidConfig
QueryExecutionFailure == ValidConfig /\ ~env.dev_mode /\ ~outcome.success
ReachesExtraction == ValidConfig /\ (env.dev_mode \/ outcome.success)
ExtractionRaises == get_submission_chats(table, db_fault).raised
WritingRaises ==
    save_stats_to_json(get_submission_chats(table, db_fault).value, file, fs_fault).raised
RuntimeError ==
    ReachesExtraction /\ (ExtractionRaises \/ (~ExtractionRaises /\ WritingRaises))

\* C3: every run ends with one exit code fixed by its failure class: 1 for a
\* configuration error, 2 for a query execution failure, 3 for an error
\* raised by extraction or artifact writing, and 0 only when the artifact
\* was written; the process has an exit code exactly when it has exited.
C3_ExitCodeByFailureClass ==
    /\ Exited <=> exit_code # NoExit
    /\ Exited =>
          /\ exit_code \in {0, 1, 2, 3}
          /\ exit_code = 1 <=> ConfigurationError
          /\ exit_code = 2 <=> QueryExecutionFailure
          /\ exit_code = 3 <=> RuntimeError
          /\ exit_code = 0 =>
                save_calls = 1 /\ file.exists /\ IsCompleteJson(file.content)

C3_Witness ==
    /\ Exited /\ exit_code = 3
    /\ save_calls = 1 /\ fs_fault.kind = "open"

\* C4: a production configuration whose query text is missing makes the run
\* exit with code 1 with the QueryEngine never called and no artifact written.
C4_MissingQueryExitsOne ==
    (~env.dev_mode /\ env.query = "") =>
        /\ pc \in {"start", "exited"}
        /\ Exited => exit_code = 1
        /\ execute_calls = 0 /\ engine_calls = 0
        /\ save_calls = 0 /\ file \in Files

C4_Witness ==
    /\ ~env.dev_mode /\ env.query = "" /\ env.query_signature # "" /\ ~env.malformed
    /\ Exited /\ exit_code = 1

\* C5: when `results` has zero rows and the run reaches extraction, with the
\* data source and the file system working, the artifact is exactly the
\* empty JSON object {} and the exit code is 0.
C5_EmptyTableWritesEmptyObject ==
    (Len(table) = 0 /\ db_fault = "none" /\ fs_fault.kind = "none"
        /\ Exited /\ extract_calls = 1) =>
        /\ file.exists
        /\ file.content = <<EmptyObject>>
        /\ exit_code = 0

C5_Witness ==
    /\ Len(table) = 0 /\ ~env.dev_mode
    /\ Exited /\ exit_code = 0 /\ save_calls = 1
    /\ file.content = <<EmptyObject>>

\* C6: a run that ends in a data-access or persistence failure leaves at the
\* output path either what was there before (a previous artifact or no
\* file) or a complete JSON document, never a partial one.
C6_ArtifactAllOrNothing ==
    (Exited /\ exit_code = 3) =>
        \/ file \in Files
        \/ file.exists /\ IsCompleteJson(file.content)

\* C7: at the end of every run, successful or failed, no connection opened
\* by the extraction function during the run remains open.
C7_ConnectionsReleased ==
    Exited => open_conns = 0

\* The mapping the chat-centric strategy is to return: one entry per row,
\* keyed by the row's SubmissionChatID, holding its dates and participant count
ChatEntry(row) ==
    [k |-> row.SubmissionChatID,
     v |-> [FirstMessageDate |-> row.FirstMessageDate,
            LastMessageDate |-> row.LastMessageDate,
            ParticipantCount |-> row.ParticipantCount]]
ChatMapping(tbl) == [i \in 1..Len(tbl) |-> ChatEntry(tbl[i])]
UniqueChatIds(tbl) ==
    \A i, j \in 1..Len(tbl) : tbl[i].SubmissionChatID = tbl[j].SubmissionChatID => i = j

\* C8: for a `results` table of N >= 1 rows with unique chat identifiers, a
\* run that reaches extraction writes the mapping of N entries keyed by
\* SubmissionChatID and exits with code 0.
C8_ChatsKeyedByChatId ==
    (Len(table) >= 1 /\ UniqueChatIds(table) /\ db_fault = "none"
        /\ fs_fault.kind = "none" /\ Exited /\ extract_calls = 1) =>
        /\ exit_code = 0
        /\ Len(data) = Len(table)
        /\ data = ChatMapping(table)
        /\ file.content = JsonDocument(ChatMapping(table))

-----------------------------------------------------------------------------
(* Properties of single calls *)

Returned(f) == pc = "returned" /\ fn = f

C10_ExecuteQueryCallsOnce ==
    Returned("execute_query") =>
        /\ ~result.raised
        /\ IF params.query = "" \/ params.query_signature = ""
           THEN ~result.ret /\ engine_calls = 0
           ELSE engine_calls = 1 /\ (result.ret <=> outcome.success)

C10_Witness ==
    /\ Returned("execute_query")
    /\ params.query # "" /\ params.query_signature # ""
    /\ ~outcome.success /\ ~result.ret /\ engine_calls = 1

====
